---- MODULE Spec2Model ----
(***************************************************************************)
(* The log-linear optimal growth model of log_linear_growth_model.py:      *)
(* the memoized value-function solve (compute_value_function_cached        *)
(* behind joblib's memory.cache), the fixed-point loop it starts, and the  *)
(* LogLinearGrowthModel facade (compute_value_function, compute_greedy).   *)
(*                                                                         *)
(* Numbers.  Real values are kept as integers in units of 1e-5, so that    *)
(* the tolerance 1e-4 is 10 and 25 is 2500000.  A discount factor is kept  *)
(* in percent (95 is 0.95) and the productivity parameter alpha as the     *)
(* degree of a root (2 is the exponent 1/2).  Divisions round down.        *)
(***************************************************************************)
EXTENDS Integers, Sequences, FiniteSets, TLC

VARIABLES
    cache,      \* the joblib store: a function from the keys stored to value arrays
    pc,         \* per process: where its current call stands
    call,       \* per process: the call in progress (or the last one made)
    heap,       \* per process: the arrays of the running solve, by buffer name
    v,          \* per process: the buffer compute_fixed_point's v is bound to
    iterate,    \* per process: operator applications made by the running solve
    error,      \* per process: sup-norm measured by the last application
    state,      \* per process: state of the fixed-point solver
    v_star,     \* per process: the value array the memoized solve handed back
    ret,        \* per process: what the last finished call returned
    ncalls,     \* calls started so far, all processes together
    active,     \* the processes that make calls
    hist,       \* per key: history of the memoized solve (runs, results, writer)
    log         \* per process: what the current call has done so far

vars == <<cache, pc, call, heap, v, iterate, error, state, v_star, ret,
          ncalls, active, hist, log>>

\* ------------------------------------------------------------------ bounds

\* Calls made in one behaviour by the single process of Spec.
MaxCalls == 3

\* Calls made in one behaviour by the processes of SpecConc, all together.
MaxConcCalls == 2

\* --------------------------------------------------------------- constants

Procs == {"p1", "p2"}

None == <<>>

\* error_tol handed to compute_fixed_point: 1e-4, in units of 1e-5.
error_tol == 10

\* A max_iter a hundred times too large.
max_iter_too_large == 100 * 100

\* max_iter handed to compute_fixed_point.
max_iter == 100

\* 25, the offset of the initial guess, in units of 1e-5.
w_offset == 2500000

\* Lower end of the grid (1e-6 in the source; the smallest positive point here).
grid_min == 1

\* ------------------------------------------------------- numerical helpers

\* The element of a one-element set: Only({e(x) : x \in {a}}) is e(a), with
\* a evaluated once.
Only(S) == CHOOSE x \in S : TRUE

Abs(x) == IF x < 0 THEN -x ELSE x

RECURSIVE SeqSum(_)
SeqSum(s) == IF s = <<>> THEN 0 ELSE Head(s) + SeqSum(Tail(s))

RECURSIVE SeqMax(_)
SeqMax(s) == IF Len(s) = 1 THEN s[1]
             ELSE Only({IF s[1] >= m THEN s[1] ELSE m : m \in {SeqMax(Tail(s))}})

\* np.mean of a sample.
Mean(s) == Only({SeqSum(t) \div Len(t) : t \in {s}})

\* np.max(np.abs(a - b)): the sup-norm distance of two arrays.
SupNorm(a, b) == Only({SeqMax(d) : d \in {[i \in DOMAIN a |-> Abs(a[i] - b[i])]}})

\* np.log on the integers 1..9, in units of 1e-5.
LogTable ==
    <<0, 69315, 109861, 138629, 160944, 179176, 194591, 207944, 219722>>

Log(x) == LogTable[x]

RECURSIVE Power(_, _)
Power(x, n) == IF n = 0 THEN 1 ELSE x * Power(x, n - 1)

\* k**alpha for the exponent 1/a: the integer root, for every k a grid holds.
Roots ==
    [a \in 1..3 |-> [k \in 1..9 |->
        CHOOSE r \in 0..k : Power(r, a) <= k /\ k < Power(r + 1, a)]]

\* lambda k: k**alpha
f(k, alpha) == Roots[alpha][k]

\* np.empty(n): a fresh buffer.  Its contents are arbitrary; every cell is
\* written before it is read.
np_empty(n) == [i \in 1..n |-> 0]

\* np.linspace(lo, hi, n).
linspace(lo, hi, n) == [i \in 1..n |-> lo + ((i - 1) * (hi - lo)) \div (n - 1)]

\* ------------------------------------------------------------ the facade

\* LogLinearGrowthModel.__init__: the parameters, the grid and the shock
\* sample of one instance.  draws is the lognormal sample
\* exp(mu + sigma * randn(...)) the constructor draws.
LogLinearGrowthModel(alpha, beta, mu, sigma, grid_max, grid_size, draws) ==
    [alpha |-> alpha, beta |-> beta, mu |-> mu, sigma |-> sigma,
     grid |-> linspace(grid_min, grid_max, grid_size),
     shocks |-> draws]

\* The instances calls are made on: two that differ in the shock sample
\* only, and one with a finer grid and a discount factor near 1.
Models ==
    { LogLinearGrowthModel(2, 10, 1, 1, 9, 2, <<1, 2>>),
      LogLinearGrowthModel(2, 10, 1, 1, 9, 2, <<1, 3>>),
      LogLinearGrowthModel(2, 95, 1, 1, 9, 3, <<1, 2>>) }

\* The arguments compute_value_function hands to the memoized solve; joblib
\* keys the store by exactly these.
Key(m) == [grid |-> m.grid, beta |-> m.beta, alpha |-> m.alpha, shocks |-> m.shocks]

Keys == {Key(m) : m \in Models}

\* Value arrays a caller may hand to compute_greedy for a grid.
SuppliedW(grid) == { [i \in DOMAIN grid |-> 3 * Log(grid[i])] }

\* ------------------------------------------------------ Bellman operator

\* The interpolant of w over the grid, constant beyond its ends.
w_func(x, grid, w) ==
    IF x <= grid[1] THEN w[1]
    ELSE IF x >= grid[Len(grid)] THEN w[Len(grid)]
    ELSE Only({ w[j] + ((w[j + 1] - w[j]) * (x - grid[j])) \div (grid[j + 1] - grid[j])
                : j \in {i \in 1..(Len(grid) - 1) : grid[i] <= x /\ x < grid[i + 1]} })

\* u(c) + beta * E[w(y * shock)] for consumption c at capital k, y = f(k) - c.
objective(c, k, w, key) ==
    LET y == f(k, key.alpha) - c
        cont == Mean([s \in DOMAIN key.shocks |-> w_func(y * key.shocks[s], key.grid, w)])
    IN  Log(c) + (key.beta * cont) \div 100

\* The objective at every feasible consumption c in (0, f(k)].
objectives(k, w, key) == [c \in 1..f(k, key.alpha) |-> objective(c, k, w, key)]

\* The maximizing consumption given the objective's values (the least one
\* on a tie).
c_star(obj) ==
    CHOOSE c \in DOMAIN obj :
        \A d \in DOMAIN obj : obj[c] > obj[d] \/ (obj[c] = obj[d] /\ c <= d)

\* The loop over the grid points from index i on.  mem holds the arrays by
\* buffer name: w is read from buffer wb as it stands when point i is
\* reached, and Tw[i] is written into buffer Twb.
RECURSIVE bellman_loop(_, _, _, _, _, _)
bellman_loop(i, mem, sig, wb, Twb, key) ==
    IF i > Len(key.grid) THEN [mem |-> mem, sigma |-> sig]
    ELSE Only({ Only({ bellman_loop(i + 1, [mem EXCEPT ![Twb][i] = obj[c]],
                                    Append(sig, c), wb, Twb, key)
                       : c \in {c_star(obj)} })
                : obj \in {objectives(key.grid[i], mem[wb], key)} })

\* bellman_operator(w, grid, beta, u, f, shocks, Tw, compute_policy): the
\* memory after the call and the policy (None unless it was asked for).
bellman_operator(mem, wb, Twb, key, compute_policy) ==
    Only({ [mem |-> r.mem, Tw |-> Twb,
            sigma |-> IF compute_policy THEN r.sigma ELSE None]
           : r \in {bellman_loop(1, mem, <<>>, wb, Twb, key)} })

\* ------------------------------------------------- the memoized solve

\* A lookup that never finds an entry.
memory_cache_has_never(store, key) == FALSE

\* A write under a key that leaves the shock sample out.
memory_cache_put_ignoring_shocks(store, key, value) ==
    [k \in DOMAIN store \cup {[key EXCEPT !.shocks = <<1, 2>>]} |->
        IF k = [key EXCEPT !.shocks = <<1, 2>>] THEN value ELSE store[k]]

\* A store that keeps the latest entry only.
memory_cache_put_latest_only(store, key, value) == [k \in {key} |-> value]

\* joblib's memory.cache, as far as the program uses it: is there an entry
\* under the key, the entry, and the store after writing one.
memory_cache_has(store, key) == key \in DOMAIN store

memory_cache_get(store, key) == store[key]

memory_cache_put(store, key, value) ==
    [k \in DOMAIN store \cup {key} |-> IF k = key THEN value ELSE store[k]]

\* An initial guess that depends on how many calls were made before.
initial_w_call_dependent(grid) ==
    [i \in DOMAIN grid |-> 5 * Log(grid[i]) - w_offset - 1000 * ncalls]

\* initial_w = 5 * np.log(grid) - 25
initial_w(grid) == [i \in DOMAIN grid |-> 5 * Log(grid[i]) - w_offset]

\* Tw bound to the array of the initial guess.
Tw_buffer_aliased == "initial_w"

\* The buffer Tw = np.empty(len(grid)) names: one of its own, handed to
\* every operator application of the loop (Tw=Tw).
Tw_buffer == "Tw"

\* The loop asking for the policy.
loop_compute_policy_on == TRUE

\* compute_policy as handed to the operator by the loop.
loop_compute_policy == FALSE

\* The memory of a solve as compute_value_function_cached sets it up.
solve_memory(grid) ==
    [[b \in {"initial_w", "Tw"} |-> np_empty(Len(grid))]
        EXCEPT !["initial_w"] = initial_w(grid)]

NoMemory == [b \in {"initial_w", "Tw"} |-> None]

\* A solve that hands back an array only when it converged.
v_star_of_converged_only(p) ==
    IF state[p] = "Converged" THEN heap[p][v[p]] ELSE None

\* What compute_fixed_point returns and compute_value_function_cached
\* returns unchanged: the array v is bound to.
v_star_of(p) == heap[p][v[p]]

\* A test that takes every w for absent.
w_is_None_always(w) == TRUE

\* compute_greedy's test "w is None".
w_is_None(w) == w = None

\* -------------------------------------------------------------- the state

Terminal == {"Converged", "MaxIterExceeded"}

NoCall == [kind |-> "none", m |-> CHOOSE m \in Models : TRUE, w |-> None]

NoLog == [lookups |-> 0, loop_flags |-> {}, last_in |-> None, last_out |-> None,
          policy_apps |-> 0, policy_w |-> None]

NoHist == [lookups |-> 0, runs |-> 0, writes |-> 0, first |-> None,
           writer |-> "none", result |-> None]

CallLimit == IF Cardinality(active) > 1 THEN MaxConcCalls ELSE MaxCalls

InitCommon ==
    /\ cache = <<>>
    /\ pc = [p \in Procs |-> "idle"]
    /\ call = [p \in Procs |-> NoCall]
    /\ heap = [p \in Procs |-> NoMemory]
    /\ v = [p \in Procs |-> "initial_w"]
    /\ iterate = [p \in Procs |-> 0]
    /\ error = [p \in Procs |-> 0]
    /\ state = [p \in Procs |-> "NotStarted"]
    /\ v_star = [p \in Procs |-> None]
    /\ ret = [p \in Procs |-> None]
    /\ ncalls = 0
    /\ hist = [k \in Keys |-> NoHist]
    /\ log = [p \in Procs |-> NoLog]

\* One process: the program as its own documentation describes it
\* (single-threaded, synchronous).
Init == InitCommon /\ active = {"p1"}

\* Two processes sharing the store.
InitConc == InitCommon /\ active = Procs

\* A call starts: what the previous call left behind is dropped.
StartCall(p, c, where) ==
    /\ pc[p] = "idle"
    /\ p \in active
    /\ ncalls < CallLimit
    /\ ncalls' = ncalls + 1
    /\ call' = [call EXCEPT ![p] = c]
    /\ pc' = [pc EXCEPT ![p] = where]
    /\ heap' = [heap EXCEPT ![p] = NoMemory]
    /\ v' = [v EXCEPT ![p] = "initial_w"]
    /\ iterate' = [iterate EXCEPT ![p] = 0]
    /\ error' = [error EXCEPT ![p] = 0]
    /\ state' = [state EXCEPT ![p] = "NotStarted"]
    /\ v_star' = [v_star EXCEPT ![p] = None]
    /\ ret' = [ret EXCEPT ![p] = None]
    /\ log' = [log EXCEPT ![p] = NoLog]
    /\ UNCHANGED <<cache, active, hist>>

\* LogLinearGrowthModel.compute_value_function is called on instance m.
CallValue(p) ==
    \E m \in Models :
        StartCall(p, [kind |-> "value", m |-> m, w |-> None], "lookup")

\* LogLinearGrowthModel.compute_greedy is called on instance m, with a value
\* array or without: without one it calls compute_value_function first.
CallGreedy(p) ==
    \E m \in Models : \E w \in SuppliedW(m.grid) \cup {None} :
        StartCall(p, [kind |-> "greedy", m |-> m, w |-> w],
                  IF w_is_None(w) THEN "lookup" ELSE "policy")

\* The memoized solve finds an entry under the key and hands it back.
CacheHit(p) ==
    LET key == Key(call[p].m) IN
    /\ pc[p] = "lookup"
    /\ memory_cache_has(cache, key)
    /\ v_star' = [v_star EXCEPT ![p] = memory_cache_get(cache, key)]
    /\ pc' = [pc EXCEPT ![p] = "have_value"]
    /\ log' = [log EXCEPT ![p].lookups = @ + 1]
    /\ hist' = [hist EXCEPT ![key].lookups = @ + 1]
    /\ UNCHANGED <<cache, call, heap, v, iterate, error, state, ret, ncalls,
                   active>>

\* The memoized solve finds no entry: compute_value_function_cached starts,
\* sets up Tw and initial_w and enters compute_fixed_point.
CacheMiss(p) ==
    LET key == Key(call[p].m) IN
    /\ pc[p] = "lookup"
    /\ ~memory_cache_has(cache, key)
    /\ heap' = [heap EXCEPT ![p] = solve_memory(key.grid)]
    /\ v' = [v EXCEPT ![p] = "initial_w"]
    /\ iterate' = [iterate EXCEPT ![p] = 0]
    /\ state' = [state EXCEPT ![p] = "Iterating"]
    /\ pc' = [pc EXCEPT ![p] = "solve"]
    /\ hist' = [hist EXCEPT ![key].lookups = @ + 1, ![key].runs = @ + 1]
    /\ log' = [log EXCEPT ![p].lookups = @ + 1]
    /\ UNCHANGED <<cache, call, error, v_star, ret, ncalls, active>>

\* One pass of the fixed-point loop: apply the operator to v, measure the
\* sup-norm between the new iterate and v, copy the new iterate into v's
\* array (v stays bound to the array of the initial guess), and leave the
\* loop when the norm is below the tolerance or the count has reached
\* max_iter.
Iterate(p) ==
    /\ pc[p] = "solve"
    /\ state[p] = "Iterating"
    /\ \E r \in {bellman_operator(heap[p], v[p], Tw_buffer, Key(call[p].m),
                                  loop_compute_policy)} :
       \E err \in {SupNorm(r.mem[r.Tw], r.mem[v[p]])} :
          /\ heap' = [heap EXCEPT ![p] = [r.mem EXCEPT ![v[p]] = r.mem[r.Tw]]]
          /\ iterate' = [iterate EXCEPT ![p] = @ + 1]
          /\ error' = [error EXCEPT ![p] = err]
          /\ state' = [state EXCEPT ![p] =
                          IF err < error_tol THEN "Converged"
                          ELSE IF iterate[p] + 1 >= max_iter THEN "MaxIterExceeded"
                          ELSE "Iterating"]
          /\ log' = [log EXCEPT ![p].loop_flags = @ \cup {r.sigma # None},
                                ![p].last_in = heap[p][v[p]],
                                ![p].last_out = r.mem[r.Tw]]
    /\ UNCHANGED <<cache, pc, call, v, v_star, ret, ncalls, active, hist>>

\* The loop is over: compute_value_function_cached returns v_star and the
\* memoized solve stores it under the key before handing it back.
Store(p) ==
    LET key == Key(call[p].m)
        value == v_star_of(p)
    IN
    /\ pc[p] = "solve"
    /\ state[p] \in Terminal
    /\ v_star' = [v_star EXCEPT ![p] = value]
    /\ cache' = memory_cache_put(cache, key, value)
    /\ hist' = [hist EXCEPT ![key].first = IF @ = None THEN value ELSE @,
                            ![key].writes = @ + 1,
                            ![key].writer = state[p],
                            ![key].result = value]
    /\ heap' = [heap EXCEPT ![p] = NoMemory]
    /\ pc' = [pc EXCEPT ![p] = "have_value"]
    /\ UNCHANGED <<call, v, iterate, error, state, ret, ncalls, active, log>>

\* compute_value_function returns v_star: to the caller, or to
\* compute_greedy, which takes it as w.
ReturnValue(p) ==
    /\ pc[p] = "have_value"
    /\ IF call[p].kind = "value"
       THEN /\ ret' = [ret EXCEPT ![p] = v_star[p]]
            /\ pc' = [pc EXCEPT ![p] = "idle"]
       ELSE /\ ret' = ret
            /\ pc' = [pc EXCEPT ![p] = "policy"]
    /\ UNCHANGED <<cache, call, heap, v, iterate, error, state, v_star, ncalls,
                   active, hist, log>>

\* The memory of the operator application compute_greedy makes: w, and the
\* buffer the operator allocates when it is handed none.
greedy_memory(w, grid) ==
    [b \in {"w", "Tw"} |-> IF b = "w" THEN w ELSE np_empty(Len(grid))]

\* compute_greedy applies the operator once with compute_policy=True and
\* returns the policy.
Policy(p) ==
    /\ pc[p] = "policy"
    /\ \E w \in {IF w_is_None(call[p].w) THEN v_star[p] ELSE call[p].w} :
       \E r \in {bellman_operator(greedy_memory(w, call[p].m.grid), "w", "Tw",
                                  Key(call[p].m), TRUE)} :
          /\ ret' = [ret EXCEPT ![p] = r.sigma]
          /\ log' = [log EXCEPT ![p].policy_apps = @ + 1, ![p].policy_w = w]
    /\ pc' = [pc EXCEPT ![p] = "idle"]
    /\ UNCHANGED <<cache, call, heap, v, iterate, error, state, v_star, ncalls,
                   active, hist>>

Next ==
    \E p \in Procs :
        \/ CallValue(p)
        \/ CallGreedy(p)
        \/ CacheHit(p)
        \/ CacheMiss(p)
        \/ Iterate(p)
        \/ Store(p)
        \/ ReturnValue(p)
        \/ Policy(p)

Spec == Init /\ [][Next]_vars

SpecConc == InitConc /\ [][Next]_vars

\* The single process of Spec runs on once it is inside the loop: the
\* program is synchronous and nothing suspends it.
LiveSpec == Spec /\ \A p \in Procs : WF_vars(Iterate(p))

\* ------------------------------------------------------------- properties

SameKey(p, q) == Key(call[p].m) = Key(call[q].m)

Solved(p) == state[p] # "NotStarted"

\* C1: memoization idempotence.  For every key, however many memoized
\* solves were made under it, the fixed-point solver ran exactly once, on the
\* first of them, and every memoized solve that has handed a value back
\* handed back the value the first one did.
C1_MemoizedOnce ==
    /\ \A k \in Keys :
          /\ hist[k].runs = (IF hist[k].lookups > 0 THEN 1 ELSE 0)
          /\ hist[k].writes <= 1
    /\ \A p \in Procs :
          v_star[p] # None => v_star[p] = hist[Key(call[p].m)].first

\* A second memoized solve under a key was answered from the store.
C1_Witness ==
    \E p \in Procs :
        /\ hist[Key(call[p].m)].lookups >= 2
        /\ state[p] = "NotStarted"
        /\ v_star[p] # None

\* C2: the solve terminates.  It never applies the operator more than
\* max_iter = 100 times, and a solver in state Iterating eventually is in
\* one of the states Converged and MaxIterExceeded.
C2_Terminates ==
    \A p \in Procs :
        /\ [](iterate[p] <= 100)
        /\ (state[p] = "Iterating") ~> (state[p] \in Terminal)

\* A solve ended by the iteration count, at exactly max_iter applications.
C2_Witness ==
    \E p \in Procs : state[p] = "MaxIterExceeded" /\ iterate[p] = max_iter

\* C3: the solver is in state Converged only when the array that went into
\* the last operator application and the array that came out of it are
\* less than the tolerance apart in sup-norm.
C3_ConvergedMeansClose ==
    \A p \in Procs :
        state[p] = "Converged" =>
            /\ log[p].last_in # None
            /\ SupNorm(log[p].last_in, log[p].last_out) < error_tol

\* A solve converged after more than one application.
C3_Witness ==
    \E p \in Procs : state[p] = "Converged" /\ iterate[p] > 1

\* C4: in both terminal states the solve hands back an array, the one the
\* last operator application produced; reaching max_iter yields no error
\* and no missing result.
C4_ReturnsLastIterate ==
    \A p \in Procs :
        (state[p] \in Terminal /\ pc[p] # "solve") =>
            /\ v_star[p] # None
            /\ Len(v_star[p]) = Len(call[p].m.grid)
            /\ v_star[p] = log[p].last_out
            /\ (call[p].kind = "value" /\ pc[p] = "idle" => ret[p] = v_star[p])

\* A solve that ended in MaxIterExceeded has handed its array back.
C4_Witness ==
    \E p \in Procs :
        /\ state[p] = "MaxIterExceeded"
        /\ pc[p] = "idle"
        /\ call[p].kind = "value"
        /\ ret[p] # None

\* C5 as stated: every entry of the store was written by a run that ended
\* in state Converged.
C5_AllEntriesConverged ==
    \A k \in DOMAIN cache : hist[k].writer = "Converged"

\* C5 as amended: every entry of the store is the array returned by a
\* solver run under its key that ended in a terminal state, Converged or
\* MaxIterExceeded.
C5_EntriesFromFinishedRuns ==
    \A k \in DOMAIN cache :
        /\ hist[k].writer \in Terminal
        /\ cache[k] = hist[k].result

\* The store holds an entry written by a run that ended in MaxIterExceeded.
C5_Witness ==
    \E k \in DOMAIN cache : hist[k].writer = "MaxIterExceeded" /\ cache[k] # None

\* C6: no step removes an entry of the store or changes its value; a write
\* under another key adds an entry beside the ones there.
C6_EntriesKept ==
    [][\A k \in DOMAIN cache : k \in DOMAIN cache' /\ cache'[k] = cache[k]]_vars

\* The store holds entries under two keys.
C6_Witness == Cardinality(DOMAIN cache) >= 2

\* C7: the race on the store is benign.  Two processes whose memoized solves
\* under the same key have handed back a value hold the same value, and the
\* entry in the store under that key is that value.
C7_BenignRace ==
    \A p \in Procs :
        v_star[p] # None =>
            /\ Key(call[p].m) \in DOMAIN cache
            /\ cache[Key(call[p].m)] = v_star[p]
            /\ \A q \in Procs : (SameKey(p, q) /\ v_star[q] # None) => v_star[q] = v_star[p]

\* Both processes missed, computed and wrote under the same key.
C7_Witness ==
    \E k \in Keys :
        /\ hist[k].writes = 2
        /\ \A p \in Procs : Key(call[p].m) = k /\ v_star[p] # None

\* C8: the loop never asks for the policy; compute_greedy applies the
\* operator with compute_policy=True exactly once, when no solve is under
\* way and the value function is at hand, and returns that application's
\* policy; compute_value_function never does.
C8_PolicyOnce ==
    \A p \in Procs :
        /\ TRUE \notin log[p].loop_flags
        /\ log[p].policy_apps <= 1
        /\ call[p].kind = "value" => log[p].policy_apps = 0
        /\ log[p].policy_apps = 1 =>
              /\ call[p].kind = "greedy"
              /\ state[p] # "Iterating"
              /\ call[p].w = None => (v_star[p] # None /\ log[p].policy_w = v_star[p])
        /\ (call[p].kind = "greedy" /\ pc[p] = "idle") =>
              /\ log[p].policy_apps = 1
              /\ ret[p] = bellman_operator(greedy_memory(log[p].policy_w, call[p].m.grid),
                                           "w", "Tw", Key(call[p].m), TRUE).sigma

\* compute_greedy without w has returned a policy after a solve of more
\* than one application.
C8_Witness ==
    \E p \in Procs :
        /\ call[p].kind = "greedy" /\ call[p].w = None /\ pc[p] = "idle"
        /\ state[p] \in Terminal /\ iterate[p] > 1
        /\ ret[p] # None

\* C9: compute_greedy with w supplied never enters the memoized solve,
\* runs no iteration, leaves the store as it is and applies the operator to
\* exactly that w; without w it enters the memoized solve once, under the
\* instance's own key, and applies the operator to what that returned.
C9_GreedyDelegation ==
    /\ [](\A p \in Procs :
            /\ (call[p].kind = "greedy" /\ call[p].w # None) =>
                  /\ log[p].lookups = 0
                  /\ iterate[p] = 0 /\ state[p] = "NotStarted"
                  /\ log[p].policy_apps = 1 => log[p].policy_w = call[p].w
            /\ (call[p].kind = "greedy" /\ call[p].w = None /\ log[p].policy_apps = 1) =>
                  /\ log[p].lookups = 1
                  /\ log[p].policy_w = cache[Key(call[p].m)])
    /\ [][\A p \in Procs :
            (call'[p].kind = "greedy" /\ call'[p].w # None /\ pc'[p] # pc[p])
                => cache' = cache]_vars

\* compute_greedy with w supplied has returned while the store holds an
\* entry under the instance's key.
C9_Witness ==
    \E p \in Procs :
        /\ call[p].kind = "greedy" /\ call[p].w # None /\ pc[p] = "idle"
        /\ log[p].policy_apps = 1
        /\ Key(call[p].m) \in DOMAIN cache

====
